---- MODULE Spec2Model ----
(***************************************************************************)
(* A model of the distributed key-value store: the consistent-hash ring    *)
(* (kvstore/hash_ring.py), the local store (kvstore/simple_store.py) and   *)
(* the coordinator, replication and join handlers of a node                *)
(* (kvstore/distributed_node.py).                                          *)
(*                                                                         *)
(* A node is a single asyncio process: a handler runs without interruption *)
(* from one await to the next.  Each action below is one such stretch of   *)
(* a handler, or the handling of one peer RPC by the node that receives it.*)
(***************************************************************************)
EXTENDS Integers, Sequences, FiniteSets

\* ------------------------------------------------------------------ bounds
MaxWrites == 2       \* writes (client PUT/DELETE that replicate, direct peer calls) in one run
MaxInflight == 2     \* client requests in flight at once
MaxCrash == 1        \* nodes that fail (fail-stop) in one run
MaxJoins == 2        \* join_cluster calls in one run
MaxNotify == 2       \* notify_join requests sent by somebody other than a join handler
MaxReplicas == 5     \* the largest count asked of get_nodes

\* -------------------------------------------------------------- the domain
Nodes == {"node1", "node2", "node3"}
Keys == {"x"}                        \* the keys clients read and write
StoreKeys == Keys \cup {"user1"}     \* the keys a store can hold
Vals == {"a", "b"}
None == "None"                       \* Python's None: absent key, missing field
DefaultRF == 3                       \* replication_factor=3 of DistributedNode.__init__
RFs == {1, DefaultRF}                \* replication factors a cluster is configured with
Levels == {"one", "quorum", "all", "bogus"}   \* consistency strings a client sends
Slots == 1..MaxInflight

\* HashRing._hash: int(md5(s).hexdigest(), 16).  The table holds the 16 most
\* significant bits of the 128-bit digest of each string of the model; they are
\* pairwise distinct, so the order of the positions is the order of the digests.
hash(s) ==
  CASE s = "node3" -> 4885
    [] s = "node1" -> 5701
    [] s = "user1" -> 9417
    [] s = "node2" -> 30856
    [] s = "user2" -> 32344
    [] s = "x"     -> 40404
    [] s = "node4" -> 40482

\* ------------------------------------------------------------- hash ring
\* A HashRing object.  nodes is the dict position -> node_id, kept in insertion
\* order as a sequence of entries; sorted_hashes is the list of its keys.
EmptyRing == [nodes |-> <<>>, sorted_hashes |-> <<>>]

\* The keys of the dict, and the value at a key.
positions(nodes) == {nodes[i].pos : i \in 1..Len(nodes)}
node_at(nodes, pos) == nodes[CHOOSE i \in 1..Len(nodes) : nodes[i].pos = pos].id

RECURSIVE sorted(_)
sorted(S) ==
  IF S = {} THEN <<>>
  ELSE LET m == CHOOSE x \in S : \A y \in S : x <= y
       IN <<m>> \o sorted(S \ {m})

\* An add_node that appends the position to sorted_hashes without sorting.
add_node_mut(r, node_id) ==
  LET node_hash == hash(node_id)
  IN IF node_hash \in positions(r.nodes) THEN r
     ELSE [nodes |-> Append(r.nodes, [pos |-> node_hash, id |-> node_id]),
           sorted_hashes |-> Append(r.sorted_hashes, node_hash)]

\* self.nodes[node_hash] = node_id: a new key is appended, a known key keeps its place.
add_node(r, node_id) ==
  LET node_hash == hash(node_id)
      nodes == IF node_hash \in positions(r.nodes)
               THEN [i \in 1..Len(r.nodes) |->
                       IF r.nodes[i].pos = node_hash
                       THEN [pos |-> node_hash, id |-> node_id] ELSE r.nodes[i]]
               ELSE Append(r.nodes, [pos |-> node_hash, id |-> node_id])
  IN [nodes |-> nodes, sorted_hashes |-> sorted(positions(nodes))]

\* A remove_node that deletes the position from the dict only.
remove_node_mut(r, node_id) ==
  [nodes |-> SelectSeq(r.nodes, LAMBDA e : e.pos # hash(node_id)),
   sorted_hashes |-> r.sorted_hashes]

\* del self.nodes[node_hash] and the new sorted key list; nothing when absent.
remove_node(r, node_id) ==
  LET node_hash == hash(node_id)
      nodes == SelectSeq(r.nodes, LAMBDA e : e.pos # node_hash)
  IN IF node_hash \in positions(r.nodes)
     THEN [nodes |-> nodes, sorted_hashes |-> sorted(positions(nodes))]
     ELSE r

\* list(self.nodes.values())
get_all_nodes(r) == [i \in 1..Len(r.nodes) |-> r.nodes[i].id]

\* A search whose loop has no break: it ends on the last position >= key_hash.
start_idx_mut(r, key_hash) ==
  LET hits == {i \in 1..Len(r.sorted_hashes) : r.sorted_hashes[i] >= key_hash}
  IN IF hits = {} THEN 0
     ELSE (CHOOSE i \in hits : \A j \in hits : i >= j) - 1

\* The first index whose position is >= key_hash, 0-based; 0 when there is none.
start_idx(r, key_hash) ==
  LET hits == {i \in 1..Len(r.sorted_hashes) : r.sorted_hashes[i] >= key_hash}
  IN IF hits = {} THEN 0
     ELSE (CHOOSE i \in hits : \A j \in hits : i <= j) - 1

\* A walk that stops at the end of sorted_hashes instead of wrapping around.
RECURSIVE walk_mut(_, _, _, _, _)
walk_mut(r, start, replicas, i, result) ==
  LET n == Len(r.sorted_hashes)
      idx == start + i
      node_id == node_at(r.nodes, r.sorted_hashes[idx + 1])
      take == node_id \notin {result[j] : j \in 1..Len(result)} /\ Len(result) < replicas
      result2 == IF take THEN Append(result, node_id) ELSE result
  IN IF idx >= n THEN result
     ELSE IF Len(result2) >= replicas THEN result2
          ELSE walk_mut(r, start, replicas, i + 1, result2)

\* The walk of get_nodes: i counts the positions visited so far.
RECURSIVE walk(_, _, _, _, _)
walk(r, start, replicas, i, result) ==
  LET n == Len(r.sorted_hashes)
      idx == (start + i) % n
      node_id == node_at(r.nodes, r.sorted_hashes[idx + 1])
      seen_nodes == {result[j] : j \in 1..Len(result)}
      take == node_id \notin seen_nodes /\ Len(result) < replicas
      result2 == IF take THEN Append(result, node_id) ELSE result
      seen2 == IF take THEN seen_nodes \cup {node_id} ELSE seen_nodes
  IN IF i >= n THEN result
     ELSE IF Len(result2) >= replicas \/ Cardinality(seen2) >= Len(r.nodes)
          THEN result2
          ELSE walk(r, start, replicas, i + 1, result2)

get_nodes(r, key, replicas) ==
  IF r.nodes = <<>> THEN <<>>
  ELSE walk(r, start_idx(r, hash(key)), replicas, 0, <<>>)

\* get_node: the first node of get_nodes, None on an empty ring.
get_node(r, key) ==
  LET nodes == get_nodes(r, key, 1)
  IN IF nodes # <<>> THEN nodes[1] ELSE None

\* ------------------------------------------------------------ peer table
\* self.peers is a dict node_id -> address, kept here in insertion order as a
\* sequence of entries.  The address of a node is written as the node that
\* listens there ("http://localhost:<port>").
address(n) == n
\* An address where nobody listens.
Elsewhere == "elsewhere"

peer_ids(p) == {p[i].id : i \in 1..Len(p)}

peer_address(p, id) == p[CHOOSE i \in 1..Len(p) : p[i].id = id].addr

\* A peer table that forgets what it is told to record.
peers_put_mut(p, id, addr) == p

\* self.peers[id] = addr: a new key is appended, a known key keeps its place.
peers_put(p, id, addr) ==
  IF id \in peer_ids(p)
  THEN [i \in 1..Len(p) |-> IF p[i].id = id THEN [id |-> id, addr |-> addr] ELSE p[i]]
  ELSE Append(p, [id |-> id, addr |-> addr])

\* ------------------------------------------------------------ local store
\* SimpleKVStore.data as a function over the keys of the model; None is absent.
EmptyStore == [k \in StoreKeys |-> None]
store_get(data, k) == data[k]
store_put(data, k, v) == [data EXCEPT ![k] = v]
\* A delete that leaves the key in place.
store_delete_mut(data, k) == data
store_delete(data, k) == [data EXCEPT ![k] = None]

\* ------------------------------------------------------------------ state
VARIABLES
  status,              \* node -> "new" (constructed), "up" (started), "down" (failed)
  replication_factor,  \* the replication factor every node was constructed with
  peers,               \* node -> its peer table
  hash_ring,           \* node -> its HashRing
  store,               \* node -> its SimpleKVStore.data
  req,                 \* slot -> the client request a coordinator is handling
  join,                \* node -> the state of its join_cluster call
  lastw,               \* key -> the last acknowledged write with no other write since
  notified,            \* the last notify_join sent by somebody other than a join handler
  nwrites, ncrash, njoin  \* counters that bound a run

vars == <<status, replication_factor, peers, hash_ring, store, req, join, lastw,
          notified, nwrites, ncrash, njoin>>

Idle == [kind |-> "none"]
NoWrite == [op |-> "none"]
\* The join_cluster call of a node.  seq, viaok, told, missed and got are
\* bookkeeping of the run: the rank of the call among the joins, whether the node
\* it goes through had no join of its own under way, the peers that handled the
\* notify_join of this join, those that could not be reached, and the table the
\* reply carried.  A finished call keeps via and the bookkeeping.
NoJoin == [pc |-> "idle", via |-> None, to |-> None, idx |-> 0, size |-> 0,
           resp |-> None, result |-> None,
           seq |-> 0, viaok |-> FALSE, told |-> {}, missed |-> {}, got |-> <<>>]
NoNote == [count |-> 0, to |-> None, id |-> None, addr |-> None, known |-> FALSE]

\* A node is up; at an address where nobody listens, nothing is.
Up(n) == n \in Nodes /\ status[n] = "up"
ring_nodes(n) == {hash_ring[n].nodes[i].id : i \in 1..Len(hash_ring[n].nodes)}

\* DistributedNode._get_replica_nodes
get_replica_nodes(n, key) == get_nodes(hash_ring[n], key, replication_factor)

\* The nodes that are up hold the same membership.
Agreed ==
  \A n, m \in Nodes :
    Up(n) /\ Up(m) => /\ ring_nodes(n) = ring_nodes(m)
                      /\ peer_ids(peers[n]) = peer_ids(peers[m])

AllUp == \A n \in Nodes : Up(n)

\* DistributedNode.__init__
Init ==
  /\ status = [n \in Nodes |-> "new"]
  /\ replication_factor \in RFs
  /\ peers = [n \in Nodes |-> <<>>]
  /\ hash_ring = [n \in Nodes |-> EmptyRing]
  /\ store = [n \in Nodes |-> EmptyStore]
  /\ req = [s \in Slots |-> Idle]
  /\ join = [n \in Nodes |-> NoJoin]
  /\ lastw = [k \in StoreKeys |-> NoWrite]
  /\ notified = NoNote
  /\ nwrites = 0 /\ ncrash = 0 /\ njoin = 0

\* DistributedNode.start
start(n) ==
  /\ status[n] = "new"
  /\ status' = [status EXCEPT ![n] = "up"]
  /\ hash_ring' = [hash_ring EXCEPT ![n] = add_node(@, n)]
  /\ peers' = [peers EXCEPT ![n] = peers_put(@, n, address(n))]
  /\ UNCHANGED <<replication_factor, store, req, join, lastw, notified, nwrites, ncrash, njoin>>

\* ------------------------------------------------------------------ join
\* A handle_join that notifies nobody.
next_notify_mut(p, from, peer_id, self) == 0

\* The next entry of the peer table, from index `from` on, that handle_join
\* notifies (neither the joining node nor the handling node); 0 when none is left.
next_notify(p, from, peer_id, self) ==
  LET todo == {i \in from..Len(p) : p[i].id # peer_id /\ p[i].id # self}
  IN IF todo = {} THEN 0 ELSE CHOOSE i \in todo : \A j \in todo : i <= j

\* A handle_join that gives up with 500 when a peer could not be notified.
join_resume_mut(j, e, peer_id, from, p) ==
  LET i == next_notify(p, from, peer_id, e)
  IN IF Len(p) # j.size \/ j.missed # {}
     THEN [j EXCEPT !.pc = "reply", !.resp = [status |-> 500, peers |-> <<>>]]
     ELSE IF i = 0
          THEN [j EXCEPT !.pc = "reply", !.resp = [status |-> 200, peers |-> p]]
          ELSE [j EXCEPT !.pc = "notify", !.idx = i, !.to = p[i].addr]

\* handle_join from one await to the next: the for loop over self.peers.items()
\* resumes at entry `from`.  The dict iterator raises RuntimeError when the dict
\* changed size since the loop began; the handler then answers 500.
join_resume(j, e, peer_id, from, p) ==
  LET i == next_notify(p, from, peer_id, e)
  IN IF Len(p) # j.size
     THEN [j EXCEPT !.pc = "reply", !.resp = [status |-> 500, peers |-> <<>>]]
     ELSE IF i = 0
          THEN [j EXCEPT !.pc = "reply", !.resp = [status |-> 200, peers |-> p]]
          ELSE [j EXCEPT !.pc = "notify", !.idx = i, !.to = p[i].addr]

\* join_cluster sends POST /admin/join to e; handle_join runs on e up to its
\* first notify_join RPC (or to its reply when there is nobody to notify).
join_cluster(n, e) ==
  /\ Up(n) /\ e # n /\ join[n].pc = "idle" /\ njoin < MaxJoins
  /\ njoin' = njoin + 1
  /\ IF Up(e)
     THEN LET p == peers_put(peers[e], n, address(n))
              j == [NoJoin EXCEPT !.via = e, !.size = Len(p), !.seq = njoin + 1,
                                  !.viaok = join[e].pc = "idle" /\ join[e].result # "failed"]
          IN /\ peers' = [peers EXCEPT ![e] = p]
             /\ hash_ring' = [hash_ring EXCEPT ![e] = add_node(@, n)]
             /\ join' = [join EXCEPT ![n] = join_resume(j, e, n, 1, p)]
     ELSE /\ join' = [join EXCEPT ![n] = [NoJoin EXCEPT !.result = "failed"]]
          /\ UNCHANGED <<peers, hash_ring>>
  /\ UNCHANGED <<status, replication_factor, store, req, lastw, notified, nwrites, ncrash>>

\* A notify_join that records the address it is told, also of a peer it knows.
notify_join_mut(p, ring, peer_id, peer_addr) ==
  [peers |-> peers_put(p, peer_id, peer_addr), ring |-> add_node(ring, peer_id)]

\* A notify_join that adds the peer to the ring and not to the peer table.
notify_join_mut_ring(p, ring, peer_id, peer_addr) ==
  IF peer_id \notin peer_ids(p)
  THEN [peers |-> p, ring |-> add_node(ring, peer_id)]
  ELSE [peers |-> p, ring |-> ring]

\* The body of handle_notify_join on a node with peer table p and this ring.
notify_join(p, ring, peer_id, peer_addr) ==
  IF peer_id \notin peer_ids(p)
  THEN [peers |-> peers_put(p, peer_id, peer_addr), ring |-> add_node(ring, peer_id)]
  ELSE [peers |-> p, ring |-> ring]

\* handle_notify_join on the peer that handle_join notifies about joining node n
\* (or the transport error of an unreachable one, which
\* _notify_peer_about_new_node swallows).
handle_notify_join(n) ==
  LET j == join[n]
      m == j.to
  IN /\ j.pc = "notify"
     /\ IF Up(m)
        THEN LET x == notify_join(peers[m], hash_ring[m], n, address(n))
             IN /\ peers' = [peers EXCEPT ![m] = x.peers]
                /\ hash_ring' = [hash_ring EXCEPT ![m] = x.ring]
                /\ join' = [join EXCEPT ![n].pc = "notified", ![n].told = @ \cup {m}]
        ELSE /\ UNCHANGED <<peers, hash_ring>>
             /\ join' = [join EXCEPT ![n].pc = "notified", ![n].missed = @ \cup {m}]
     /\ UNCHANGED <<status, replication_factor, store, req, lastw, notified,
                    nwrites, ncrash, njoin>>

\* POST /admin/notify_join sent to node m by somebody other than a join handler,
\* naming peer peer_id at peer_addr.
direct_notify_join(m, peer_id, peer_addr) ==
  LET x == notify_join(peers[m], hash_ring[m], peer_id, peer_addr)
  IN /\ Up(m) /\ notified.count < MaxNotify
     /\ peers' = [peers EXCEPT ![m] = x.peers]
     /\ hash_ring' = [hash_ring EXCEPT ![m] = x.ring]
     /\ notified' = [count |-> notified.count + 1, to |-> m, id |-> peer_id,
                     addr |-> peer_addr, known |-> peer_id \in peer_ids(peers[m])]
     /\ UNCHANGED <<status, replication_factor, store, req, join, lastw,
                    nwrites, ncrash, njoin>>

\* handle_join resumes after the notify_join RPC returned.
handle_join_resume(n) ==
  LET j == join[n]
      e == j.via
  IN /\ j.pc = "notified"
     /\ Up(e)
     /\ join' = [join EXCEPT ![n] = join_resume(j, e, n, j.idx + 1, peers[e])]
     /\ UNCHANGED <<status, replication_factor, peers, hash_ring, store, req, lastw,
                    notified, nwrites, ncrash, njoin>>

\* A join_cluster that drops the table of the reply.
merge_peers_mut(self, p, from_cluster, i) == p

\* A join_cluster that takes the table of the reply for its own.
merge_peers_mut_replace(self, p, from_cluster, i) == from_cluster

\* The merge loop of join_cluster over the peers of the reply, in order.
RECURSIVE merge_peers(_, _, _, _)
merge_peers(self, p, from_cluster, i) ==
  IF i > Len(from_cluster) THEN p
  ELSE LET e == from_cluster[i]
       IN IF e.id # self /\ e.id \notin peer_ids(p)
          THEN merge_peers(self, peers_put(p, e.id, e.addr), from_cluster, i + 1)
          ELSE merge_peers(self, p, from_cluster, i + 1)

RECURSIVE merge_ring(_, _, _, _, _)
merge_ring(self, p, r, from_cluster, i) ==
  IF i > Len(from_cluster) THEN r
  ELSE LET e == from_cluster[i]
       IN IF e.id # self /\ e.id \notin peer_ids(p)
          THEN merge_ring(self, peers_put(p, e.id, e.addr), add_node(r, e.id),
                          from_cluster, i + 1)
          ELSE merge_ring(self, p, r, from_cluster, i + 1)

\* join_cluster receives the reply of /admin/join.
join_reply(n) ==
  LET j == join[n]
  IN /\ j.pc = "reply"
     /\ Up(n)
     /\ IF j.resp.status = 200
        THEN /\ peers' = [peers EXCEPT ![n] = merge_peers(n, @, j.resp.peers, 1)]
             /\ hash_ring' = [hash_ring EXCEPT
                                ![n] = merge_ring(n, peers[n], @, j.resp.peers, 1)]
             /\ join' = [join EXCEPT ![n] =
                           [NoJoin EXCEPT !.result = "joined", !.via = j.via,
                                          !.seq = j.seq, !.viaok = j.viaok,
                                          !.told = j.told, !.missed = j.missed,
                                          !.got = j.resp.peers]]
        ELSE /\ peers' = peers /\ hash_ring' = hash_ring
             /\ join' = [join EXCEPT ![n] = [NoJoin EXCEPT !.result = "failed",
                                                           !.via = j.via]]
     /\ UNCHANGED <<status, replication_factor, store, req, lastw, notified,
                    nwrites, ncrash, njoin>>

\* A node fails (fail-stop): its handlers and its join_cluster call die with it,
\* and a join it was handling ends in a transport error at the joining node.
crash(n) ==
  /\ Up(n) /\ ncrash < MaxCrash
  /\ ncrash' = ncrash + 1
  /\ status' = [status EXCEPT ![n] = "down"]
  /\ req' = [s \in Slots |-> IF req[s].kind # "none" /\ req[s].node = n
                             THEN Idle ELSE req[s]]
  /\ join' = [m \in Nodes |->
               IF m = n THEN NoJoin
               ELSE IF join[m].pc \in {"notify", "notified"} /\ join[m].via = n
                    THEN [join[m] EXCEPT !.pc = "reply",
                                         !.resp = [status |-> 0, peers |-> <<>>]]
                    ELSE join[m]]
  /\ UNCHANGED <<replication_factor, peers, hash_ring, store, lastw, notified, nwrites, njoin>>

Membership ==
  \/ \E n \in Nodes : start(n)
  \/ \E n, e \in Nodes : join_cluster(n, e)
  \/ \E n \in Nodes : handle_notify_join(n)
  \/ \E n \in Nodes : handle_join_resume(n)
  \/ \E n \in Nodes : join_reply(n)
  \/ \E n \in Nodes : crash(n)

SpecMembership == Init /\ [][Membership]_vars

\* The cluster forms while notify_join requests arrive from elsewhere too, naming
\* a node at its own address or at another one.
Notify ==
  \E m \in Nodes, peer_id \in Nodes :
    \E peer_addr \in {address(peer_id), Elsewhere} :
      direct_notify_join(m, peer_id, peer_addr)

NextNotify == Membership \/ Notify

SpecNotify == Init /\ [][NextNotify]_vars

\* The nodes are told, while they start, join and fail, of a node that is not
\* one of them: POST /admin/notify_join naming node4 at its address.
Stranger == \E m \in Nodes : direct_notify_join(m, "node4", Elsewhere)

NextStranger == Membership \/ Stranger

SpecStranger == Init /\ [][NextStranger]_vars

\* ------------------------------------------------------- a ring on its own
\* HashRing objects used directly, as tests/test_replication.py and
\* tests/test_hash_ring.py do: the rings of RingHolders are built and taken apart
\* by add_node and remove_node calls in any order, over the node ids RingIds.
RingHolders == {"node1", "node2"}
RingIds == Nodes \cup {"node4"}
RingKeys == {"x", "user1", "user2"}

ring_add_node(n, node_id) ==
  /\ hash_ring' = [hash_ring EXCEPT ![n] = add_node(@, node_id)]
  /\ UNCHANGED <<status, replication_factor, peers, store, req, join, lastw, notified,
                 nwrites, ncrash, njoin>>

ring_remove_node(n, node_id) ==
  /\ hash_ring' = [hash_ring EXCEPT ![n] = remove_node(@, node_id)]
  /\ UNCHANGED <<status, replication_factor, peers, store, req, join, lastw, notified,
                 nwrites, ncrash, njoin>>

NextRing ==
  \/ \E n \in RingHolders, node_id \in RingIds : ring_add_node(n, node_id)
  \/ \E n \in RingHolders, node_id \in RingIds : ring_remove_node(n, node_id)

SpecRing == Init /\ [][NextRing]_vars

\* ------------------------------------------------------- client requests
\* The request a handler is working on.  pc is "rpc" while a peer RPC to `to` is
\* on its way, "resp" while its response is on the way back, "done" once the
\* client has the reply.  clean and seen are bookkeeping of the run, not state of
\* the program: clean says that no other write to the key was in flight when the
\* request arrived and none began since, seen is lastw[key] as the request
\* arrived (forgotten once a write to the key begins).  tried and wrote are
\* bookkeeping of a write too: the targets the fan-out has turned to, in order,
\* and the nodes whose store applied the write.  heard is bookkeeping of a read:
\* the replicas it has consulted, in order, each with the value it returned
\* (None: no value, whether the replica lacks the key, answers non-200 or is
\* unreachable).  again tells of a write that it repeats the write lastw records
\* for its key: the same operation, value and level, acknowledged with 200.
NoReply ==
  [status |-> 0, value |-> None, successful_replicas |-> 0, attempted_replicas |-> 0,
   total_possible_replicas |-> 0, errors |-> <<>>, values_found |-> {},
   source_nodes |-> <<>>]
NoResp == [status |-> 0, value |-> None]
NewReq(kind, n, k, v, level) ==
  [kind |-> kind, node |-> n, key |-> k, value |-> v, level |-> level,
   pc |-> "run", to |-> None, replica_nodes |-> <<>>, target_nodes |-> <<>>, i |-> 1,
   successful_replicas |-> 0, errors |-> <<>>, values |-> <<>>, source_nodes |-> <<>>,
   resp |-> NoResp, reply |-> NoReply, clean |-> TRUE, seen |-> NoWrite,
   tried |-> <<>>, wrote |-> {}, heard |-> <<>>, again |-> FALSE]

\* The handler returns its response: the locals of its loops are gone.
replied(r, reply) ==
  [r EXCEPT !.pc = "done", !.reply = reply, !.to = None, !.i = 0, !.resp = NoResp]

InFlight(s) == req[s].kind # "none" /\ req[s].pc # "done"
IsWrite(r) == r.kind \in {"PUT", "DELETE"}
Elems(q) == {q[i] : i \in 1..Len(q)}

\* The slot a new request takes: the first one that holds no request in flight.
FreeSlot(s) == ~InFlight(s) /\ \A t \in Slots : t < s => InFlight(t)

\* A quorum of half the replica list.
required_writes_mut(replica_nodes, consistency_level) ==
  IF consistency_level = "all" THEN Len(replica_nodes)
  ELSE IF consistency_level = "one" THEN 1
  ELSE IF Len(replica_nodes) > 1 THEN Len(replica_nodes) \div 2 ELSE 1

\* Target selection of _replicate_to_peers (lines 69-80).
required_writes(replica_nodes, consistency_level) ==
  IF consistency_level = "all" THEN Len(replica_nodes)
  ELSE IF consistency_level = "quorum" THEN (Len(replica_nodes) \div 2) + 1
  ELSE IF consistency_level = "one" THEN 1
  ELSE (Len(replica_nodes) \div 2) + 1

\* A fan-out that never prunes the replica list.
target_nodes_mut(replica_nodes, consistency_level) == replica_nodes

\* replica_nodes[:required_writes]
target_nodes(replica_nodes, consistency_level) ==
  SubSeq(replica_nodes, 1,
         IF required_writes(replica_nodes, consistency_level) < Len(replica_nodes)
         THEN required_writes(replica_nodes, consistency_level)
         ELSE Len(replica_nodes))

\* A quorum write judged successful as soon as one replica was written.
check_write_consistency_mut_quorum(successful_replicas, attempted_replicas, consistency_level) ==
  IF consistency_level = "all" THEN successful_replicas = attempted_replicas
  ELSE IF consistency_level = "quorum" THEN successful_replicas >= 1
  ELSE IF consistency_level = "one" THEN successful_replicas >= 1
  ELSE successful_replicas = attempted_replicas

\* An unknown consistency level always judged a failure.
check_write_consistency_mut_unknown(successful_replicas, attempted_replicas, consistency_level) ==
  IF consistency_level = "all" THEN successful_replicas = attempted_replicas
  ELSE IF consistency_level = "quorum" THEN successful_replicas = attempted_replicas
  ELSE IF consistency_level = "one" THEN successful_replicas >= 1
  ELSE FALSE

\* A write at 'one' judged successful whatever the number of replicas written.
check_write_consistency_mut_one(successful_replicas, attempted_replicas, consistency_level) ==
  IF consistency_level = "all" THEN successful_replicas = attempted_replicas
  ELSE IF consistency_level = "quorum" THEN successful_replicas = attempted_replicas
  ELSE IF consistency_level = "one" THEN successful_replicas >= 0
  ELSE successful_replicas = attempted_replicas

\* DistributedNode._check_write_consistency: TRUE when the write is reported successful.
check_write_consistency(successful_replicas, attempted_replicas, consistency_level) ==
  IF consistency_level = "all" THEN successful_replicas = attempted_replicas
  ELSE IF consistency_level = "quorum" THEN successful_replicas = attempted_replicas
  ELSE IF consistency_level = "one" THEN successful_replicas >= 1
  ELSE successful_replicas = attempted_replicas

\* A coordinator that does not apply a PUT to its own store.
apply_local_mut(method, data, key, value) ==
  IF method = "PUT" THEN data ELSE store_delete(data, key)

\* The local write of _replicate_to_peers (lines 88-95).
apply_local(method, data, key, value) ==
  IF method = "PUT" THEN store_put(data, key, value) ELSE store_delete(data, key)

\* The for loop of _replicate_to_peers from target r.i on, up to the next peer
\* RPC (pc "rpc") or to the end of the list (pc "check").  data is the local store.
RECURSIVE replicate_to_peers(_, _, _)
replicate_to_peers(r, data, p) ==
  IF r.i > Len(r.target_nodes) THEN [r |-> [r EXCEPT !.pc = "check"], data |-> data]
  ELSE LET node_id == r.target_nodes[r.i]
       IN IF node_id = r.node
          THEN replicate_to_peers(
                 [r EXCEPT !.i = @ + 1, !.successful_replicas = @ + 1,
                           !.tried = Append(@, node_id), !.wrote = @ \cup {node_id}],
                 apply_local(r.kind, data, r.key, r.value), p)
          ELSE IF node_id \in peer_ids(p)
               THEN [r |-> [r EXCEPT !.pc = "rpc", !.to = peer_address(p, node_id),
                                     !.tried = Append(@, node_id)],
                     data |-> data]
               ELSE replicate_to_peers(
                      [r EXCEPT !.i = @ + 1,
                                !.tried = Append(@, node_id),
                                !.errors = Append(@, [node |-> node_id,
                                                      error |-> "Node not in peer list"])],
                      data, p)

\* The reply of handle_put / handle_delete once _replicate_to_peers returned.
write_reply(r, ring) ==
  LET attempted_replicas == Len(r.target_nodes)
      total_possible_replicas == Len(get_nodes(ring, r.key, replication_factor))
      ok == check_write_consistency(r.successful_replicas, attempted_replicas, r.level)
  IN [NoReply EXCEPT
        !.status = IF ok THEN 200 ELSE 500,
        !.value = IF ok /\ r.kind = "PUT" THEN r.value ELSE None,
        !.successful_replicas = r.successful_replicas,
        !.attempted_replicas = attempted_replicas,
        !.total_possible_replicas = total_possible_replicas,
        !.errors = r.errors]

\* A write handler that undoes its local write when the write fails.
write_run_mut(r, data, p, ring) ==
  LET x == replicate_to_peers(r, data, p)
      reply == write_reply(x.r, ring)
  IN IF x.r.pc = "check"
     THEN [r |-> replied(x.r, reply),
           data |-> IF reply.status = 500 THEN store_delete(x.data, r.key) ELSE x.data]
     ELSE x

\* A write handler runs from target r.i to its next await or to its reply.
write_run(r, data, p, ring) ==
  LET x == replicate_to_peers(r, data, p)
  IN IF x.r.pc = "check"
     THEN [r |-> replied(x.r, write_reply(x.r, ring)), data |-> x.data]
     ELSE x

\* A fan-out that gives up at the first target that fails.
write_response_mut(r) ==
  IF r.resp.status = 200
  THEN [r EXCEPT !.i = @ + 1, !.successful_replicas = @ + 1]
  ELSE [r EXCEPT !.i = Len(r.target_nodes) + 1,
                 !.errors = Append(@, [node |-> r.target_nodes[r.i],
                                       error |-> IF r.resp.status = 0 THEN "exception"
                                                 ELSE "HTTP"])]

\* The response of a peer to PUT /internal/store, DELETE /internal/delete
\* (lines 104-116) or the exception of an unreachable one (lines 120-121).
write_response(r) ==
  IF r.resp.status = 200
  THEN [r EXCEPT !.i = @ + 1, !.successful_replicas = @ + 1]
  ELSE [r EXCEPT !.i = @ + 1,
                 !.errors = Append(@, [node |-> r.target_nodes[r.i],
                                       error |-> IF r.resp.status = 0 THEN "exception"
                                                 ELSE "HTTP"])]

\* ------------------------------------------------------------------ reads
\* A value found on the replica r.target_nodes[r.i] (lines 189-191, 202-204).
collect(r, value) ==
  IF value # None
  THEN [r EXCEPT !.i = @ + 1, !.values = Append(@, value),
                 !.source_nodes = Append(@, r.target_nodes[r.i]),
                 !.heard = Append(@, [node |-> r.target_nodes[r.i], value |-> value])]
  ELSE [r EXCEPT !.i = @ + 1,
                 !.heard = Append(@, [node |-> r.target_nodes[r.i], value |-> None])]

\* The for loop of _read_from_all_replicas from replica r.i on.
RECURSIVE read_from_all_replicas(_, _, _)
read_from_all_replicas(r, data, p) ==
  IF r.i > Len(r.target_nodes) THEN [r EXCEPT !.pc = "check"]
  ELSE LET node_id == r.target_nodes[r.i]
       IN IF node_id = r.node
          THEN read_from_all_replicas(collect(r, store_get(data, r.key)), data, p)
          ELSE IF node_id \in peer_ids(p)
               THEN [r EXCEPT !.pc = "rpc", !.to = peer_address(p, node_id)]
               ELSE read_from_all_replicas([r EXCEPT !.i = @ + 1], data, p)

\* A quorum read that is content with the first value.
required_reads_mut(replica_nodes) == 1

\* required_reads = (len(replica_nodes) // 2) + 1
required_reads(replica_nodes) == (Len(replica_nodes) \div 2) + 1

\* The for loop of _read_from_quorum_replicas from replica r.i on.
RECURSIVE read_from_quorum_replicas(_, _, _)
read_from_quorum_replicas(r, data, p) ==
  LET required == required_reads(r.replica_nodes)
  IN IF r.i > Len(r.target_nodes) \/ Len(r.values) >= required
     THEN [r EXCEPT !.pc = "check"]
     ELSE LET node_id == r.target_nodes[r.i]
          IN IF node_id = r.node
             THEN read_from_quorum_replicas(collect(r, store_get(data, r.key)), data, p)
             ELSE IF node_id \in peer_ids(p)
                  THEN [r EXCEPT !.pc = "rpc", !.to = peer_address(p, node_id)]
                  ELSE read_from_quorum_replicas([r EXCEPT !.i = @ + 1], data, p)

\* The for loop of _read_from_replicas (lines 136-151) from replica r.i on.
RECURSIVE read_from_replicas_loop(_, _)
read_from_replicas_loop(r, p) ==
  IF r.i > Len(r.target_nodes) THEN [r EXCEPT !.pc = "check"]
  ELSE LET node_id == r.target_nodes[r.i]
       IN IF node_id # r.node /\ node_id \in peer_ids(p)
          THEN [r EXCEPT !.pc = "rpc", !.to = peer_address(p, node_id)]
          ELSE read_from_replicas_loop([r EXCEPT !.i = @ + 1], p)

\* _read_from_replicas: the local store first, when this node is a replica.
read_from_replicas(r, data, p) ==
  IF r.node \in Elems(r.replica_nodes)
  THEN IF store_get(data, r.key) # None
       THEN [r EXCEPT !.pc = "check", !.values = <<store_get(data, r.key)>>,
                      !.source_nodes = <<r.node>>,
                      !.heard = <<[node |-> r.node, value |-> store_get(data, r.key)]>>]
       ELSE read_from_replicas_loop(
              [r EXCEPT !.heard = <<[node |-> r.node, value |-> None]>>], p)
  ELSE read_from_replicas_loop(r, p)

\* Counter(values).most_common(1)[0][0]: the most frequent value, the one met
\* first among equally frequent ones.
count(values, v) == Cardinality({i \in 1..Len(values) : values[i] = v})

\* A vote that settles a tie for the value met last.
most_common_mut(values) ==
  LET best == {i \in 1..Len(values) :
                 \A j \in 1..Len(values) : count(values, values[j]) <= count(values, values[i])}
  IN values[CHOOSE i \in best : \A j \in best : i >= j]

most_common(values) ==
  LET best == {i \in 1..Len(values) :
                 \A j \in 1..Len(values) : count(values, values[j]) <= count(values, values[i])}
  IN values[CHOOSE i \in best : \A j \in best : i <= j]

\* The reply of handle_get once the replicas were read.
read_reply(r) ==
  LET unique_values == Elems(r.values)
  IN IF r.values = <<>> THEN [NoReply EXCEPT !.status = 404]
     ELSE IF r.level = "all"
     THEN IF Cardinality(unique_values) = 1
          THEN [NoReply EXCEPT !.status = 200, !.value = r.values[1],
                               !.source_nodes = r.source_nodes]
          ELSE [NoReply EXCEPT !.status = 409, !.values_found = unique_values,
                               !.source_nodes = r.source_nodes]
     ELSE IF r.level = "quorum"
     THEN [NoReply EXCEPT !.status = 200, !.value = most_common(r.values),
                          !.source_nodes = r.source_nodes]
     ELSE [NoReply EXCEPT !.status = 200, !.value = r.values[1],
                          !.source_nodes = r.source_nodes]

\* handle_get runs from replica r.i to its next await or to its reply.
read_run(r, data, p) ==
  LET x == IF r.level = "all" THEN read_from_all_replicas(r, data, p)
           ELSE IF r.level = "quorum" THEN read_from_quorum_replicas(r, data, p)
           ELSE IF r.pc = "run" THEN read_from_replicas(r, data, p)
           ELSE read_from_replicas_loop(r, p)
  IN IF x.pc = "check" THEN replied(x, read_reply(x)) ELSE x

\* A read that gives up at the first replica that fails or has no value.
read_response_mut(r) ==
  IF r.resp.status = 200 /\ r.resp.value # None
  THEN IF r.level \in {"all", "quorum"}
       THEN [collect(r, r.resp.value) EXCEPT !.pc = "next"]
       ELSE [r EXCEPT !.pc = "check", !.values = <<r.resp.value>>,
                      !.source_nodes = <<r.target_nodes[r.i]>>,
                      !.heard = Append(@, [node |-> r.target_nodes[r.i],
                                           value |-> r.resp.value])]
  ELSE [collect(r, None) EXCEPT !.pc = "check"]

\* The response of a peer to GET /internal/store (lines 143-148, 199-204, 233-238).
read_response(r) ==
  IF r.resp.status = 200 /\ r.resp.value # None
  THEN IF r.level \in {"all", "quorum"}
       THEN [collect(r, r.resp.value) EXCEPT !.pc = "next"]
       ELSE [r EXCEPT !.pc = "check", !.values = <<r.resp.value>>,
                      !.source_nodes = <<r.target_nodes[r.i]>>,
                      !.heard = Append(@, [node |-> r.target_nodes[r.i],
                                           value |-> r.resp.value])]
  ELSE [collect(r, None) EXCEPT !.pc = "next"]

\* ---------------------------------------------------------------- actions
\* What lastw records of a write as it replies.
Ack(r) ==
  IF r.clean
  THEN [op |-> r.kind, node |-> r.node, value |-> r.value, level |-> r.level,
        status |-> r.reply.status]
  ELSE NoWrite

WriteInFlight(k) == \E t \in Slots : InFlight(t) /\ IsWrite(req[t]) /\ req[t].key = k

\* A write to key k begins: the other requests on k are no longer clean.
Disturb(k, s, r) ==
  [t \in Slots |->
     IF t = s THEN r
     ELSE IF req[t].kind # "none" /\ req[t].key = k
          THEN [req[t] EXCEPT !.clean = FALSE, !.seen = NoWrite]
          ELSE req[t]]

\* data.get('consistency', 'quorum') of handle_put, request.query.get of handle_delete
write_level(c) == IF c = None THEN "quorum" ELSE c
\* request.query.get('consistency', 'one') and the branches of handle_get
read_level(c) == IF c \in {"all", "quorum"} THEN c ELSE "one"

\* A PUT body that request.json() cannot parse: the exception it raises is
\* caught by the handler's except clause (lines 343-344).
Malformed == "malformed"

\* A PUT that replicates although its body has no 'value'.
put_rejected_mut(v) == v = Malformed

\* The PUT bodies handle_put answers 400 before it replicates: request.json()
\* raises (line 306, caught at 343-344) or 'value' is missing (lines 310-311).
put_rejected(v) == v = Malformed \/ v = None

\* handle_put / handle_delete from the request to the first await of the fan-out.
\* c is the consistency the client sent (None: omitted), v the value (None:
\* missing, Malformed: a body that is not JSON, whose consistency is never read).
handle_write(s, n, kind, k, v, c) ==
  LET level == IF v = Malformed THEN None ELSE write_level(c)
      replica_nodes == get_replica_nodes(n, k)
      r == [NewReq(kind, n, k, v, level) EXCEPT
              !.replica_nodes = replica_nodes,
              !.target_nodes = target_nodes(replica_nodes, level),
              !.clean = ~WriteInFlight(k),
              !.again = (lastw[k].op = kind /\ lastw[k].status = 200
                         /\ lastw[k].level = level /\ lastw[k].value = v)]
      x == write_run(r, store[n], peers[n], hash_ring[n])
  IN /\ FreeSlot(s) /\ Up(n)
     /\ IF kind = "PUT" /\ put_rejected(v)
        THEN /\ req' = [req EXCEPT ![s] = replied(NewReq(kind, n, k, v, level),
                                                  [NoReply EXCEPT !.status = 400])]
             /\ UNCHANGED <<store, lastw, notified, nwrites>>
        ELSE /\ nwrites < MaxWrites
             /\ nwrites' = nwrites + 1
             /\ req' = Disturb(k, s, x.r)
             /\ store' = [store EXCEPT ![n] = x.data]
             /\ lastw' = [lastw EXCEPT ![k] = IF x.r.pc = "done" THEN Ack(x.r) ELSE NoWrite]
     /\ UNCHANGED <<status, replication_factor, peers, hash_ring, join, notified,
                    ncrash, njoin>>

handle_put(s, n, k, v, c) == handle_write(s, n, "PUT", k, v, c)
handle_delete(s, n, k, c) == handle_write(s, n, "DELETE", k, None, c)

\* handle_get from the request to the first await of the read.
handle_get(s, n, k, c) ==
  LET replica_nodes == get_replica_nodes(n, k)
      r == [NewReq("GET", n, k, None, read_level(c)) EXCEPT
              !.replica_nodes = replica_nodes, !.target_nodes = replica_nodes,
              !.clean = ~WriteInFlight(k), !.seen = lastw[k]]
  IN /\ FreeSlot(s) /\ Up(n)
     /\ req' = [req EXCEPT ![s] = read_run(r, store[n], peers[n])]
     /\ UNCHANGED <<status, replication_factor, peers, hash_ring, store, join, lastw, notified,
                    nwrites, ncrash, njoin>>

\* The internal endpoints on node node_id, whose store is data and whose peer
\* table is p: the store they leave, their response, and the peer calls they
\* make on the way (none: the endpoints never replicate).
NoCalls == <<>>

\* An internal PUT that, when it changes the value, replicates to the peers of
\* the node in its turn.
handle_internal_store_mut(node_id, data, p, method, key, value) ==
  IF method = "GET"
  THEN [data |-> data, calls |-> NoCalls,
        resp |-> [status |-> IF store_get(data, key) # None THEN 200 ELSE 404,
                  value |-> store_get(data, key)]]
  ELSE IF value = None
       THEN [data |-> data, calls |-> NoCalls, resp |-> [status |-> 400, value |-> None]]
       ELSE [data |-> store_put(data, key, value),
             calls |-> IF store_get(data, key) = value THEN NoCalls
                       ELSE SelectSeq([i \in 1..Len(p) |->
                                         [to |-> p[i].addr, method |-> "PUT",
                                          key |-> key, value |-> value]],
                                      LAMBDA c : c.to # address(node_id)),
             resp |-> [status |-> 200, value |-> None]]

\* An internal PUT that refuses to overwrite a different value.
handle_internal_store_mut_cas(node_id, data, p, method, key, value) ==
  IF method = "GET"
  THEN [data |-> data, calls |-> NoCalls,
        resp |-> [status |-> IF store_get(data, key) # None THEN 200 ELSE 404,
                  value |-> store_get(data, key)]]
  ELSE IF value = None
       THEN [data |-> data, calls |-> NoCalls, resp |-> [status |-> 400, value |-> None]]
       ELSE IF store_get(data, key) \notin {None, value}
            THEN [data |-> data, calls |-> NoCalls, resp |-> [status |-> 409, value |-> None]]
            ELSE [data |-> store_put(data, key, value), calls |-> NoCalls,
                  resp |-> [status |-> 200, value |-> None]]

\* handle_internal_store: GET and PUT /internal/store/{key}
handle_internal_store(node_id, data, p, method, key, value) ==
  IF method = "GET"
  THEN [data |-> data, calls |-> NoCalls,
        resp |-> [status |-> IF store_get(data, key) # None THEN 200 ELSE 404,
                  value |-> store_get(data, key)]]
  ELSE IF value = None
       THEN [data |-> data, calls |-> NoCalls, resp |-> [status |-> 400, value |-> None]]
       ELSE [data |-> store_put(data, key, value), calls |-> NoCalls,
             resp |-> [status |-> 200, value |-> None]]

\* An internal DELETE that answers 404 for a key the node does not hold.
handle_internal_delete_mut(node_id, data, p, key) ==
  [data |-> store_delete(data, key), calls |-> NoCalls,
   resp |-> [status |-> IF store_get(data, key) # None THEN 200 ELSE 404, value |-> None]]

\* handle_internal_delete: DELETE /internal/delete/{key}
handle_internal_delete(node_id, data, p, key) ==
  [data |-> store_delete(data, key), calls |-> NoCalls,
   resp |-> [status |-> 200, value |-> None]]

\* The routes of _create_app for the internal endpoints: add_put on
\* /internal/store/{key} and add_delete on /internal/delete/{key}.  No route
\* serves GET /internal/store/{key}: the router answers it 405 Method Not Allowed
\* and handle_internal_store never sees a GET.
internal_endpoint(node_id, data, p, method, key, value) ==
  IF method = "PUT" THEN handle_internal_store(node_id, data, p, method, key, value)
  ELSE IF method = "DELETE" THEN handle_internal_delete(node_id, data, p, key)
  ELSE [data |-> data, calls |-> NoCalls, resp |-> [status |-> 405, value |-> None]]

\* The stores once the peer calls of an endpoint were handled by the nodes that
\* are up (each by the internal endpoint of the node it reaches).
RECURSIVE deliver(_, _)
deliver(st, calls) ==
  IF calls = <<>> THEN st
  ELSE LET c == Head(calls)
           h == internal_endpoint(c.to, st[c.to], peers[c.to], c.method, c.key, c.value)
       IN IF Up(c.to)
          THEN deliver([st EXCEPT ![c.to] = h.data], Tail(calls) \o h.calls)
          ELSE deliver(st, Tail(calls))

\* An internal endpoint that is served only while the peer it runs on awaits no
\* RPC of a request of its own.
handle_internal_mut_wait(s) ==
  LET r == req[s]
      m == r.to
      h == internal_endpoint(m, store[m], peers[m], r.kind, r.key, r.value)
  IN /\ r.kind # "none" /\ r.pc = "rpc"
     /\ \A t \in Slots : ~(req[t].kind # "none" /\ req[t].node = m
                            /\ req[t].pc \in {"rpc", "resp"})
     /\ IF ~Up(m)
        THEN /\ req' = [req EXCEPT ![s].pc = "resp", ![s].resp = NoResp]
             /\ UNCHANGED store
        ELSE /\ req' = [req EXCEPT ![s].pc = "resp", ![s].resp = h.resp,
                          ![s].wrote = IF IsWrite(r) /\ h.resp.status = 200
                                       THEN @ \cup {m} ELSE @]
             /\ store' = deliver([store EXCEPT ![m] = h.data], h.calls)
     /\ UNCHANGED <<status, replication_factor, peers, hash_ring, join, lastw, notified,
                    nwrites, ncrash, njoin>>

\* The peer the RPC of request s was sent to handles it (handle_internal_store,
\* handle_internal_delete); an unreachable peer makes the call raise.
handle_internal(s) ==
  LET r == req[s]
      m == r.to
      h == internal_endpoint(m, store[m], peers[m], r.kind, r.key, r.value)
  IN /\ r.kind # "none" /\ r.pc = "rpc"
     /\ IF ~Up(m)
        THEN /\ req' = [req EXCEPT ![s].pc = "resp", ![s].resp = NoResp]
             /\ UNCHANGED store
        ELSE /\ req' = [req EXCEPT ![s].pc = "resp", ![s].resp = h.resp,
                          ![s].wrote = IF IsWrite(r) /\ h.resp.status = 200
                                       THEN @ \cup {m} ELSE @]
             /\ store' = deliver([store EXCEPT ![m] = h.data], h.calls)
     /\ UNCHANGED <<status, replication_factor, peers, hash_ring, join, lastw, notified,
                    nwrites, ncrash, njoin>>

\* The coordinator resumes with the response of the peer.
resume(s) ==
  LET r == req[s]
      n == r.node
      w == write_run(write_response(r), store[n], peers[n], hash_ring[n])
      g0 == read_response(r)
      g == IF g0.pc = "check" THEN replied(g0, read_reply(g0))
           ELSE read_run(g0, store[n], peers[n])
  IN /\ r.kind # "none" /\ r.pc = "resp"
     /\ IF IsWrite(r)
        THEN /\ req' = [req EXCEPT ![s] = w.r]
             /\ store' = [store EXCEPT ![n] = w.data]
             /\ lastw' = IF w.r.pc = "done" THEN [lastw EXCEPT ![r.key] = Ack(w.r)]
                         ELSE lastw
        ELSE /\ req' = [req EXCEPT ![s] = g]
             /\ UNCHANGED <<store, lastw, notified>>
     /\ UNCHANGED <<status, replication_factor, peers, hash_ring, join, notified,
                    nwrites, ncrash, njoin>>

\* PUT /internal/store/{k} and DELETE /internal/delete/{k} called on node m by
\* somebody other than a coordinator of this run (v = None: the delete).
direct_internal(m, k, v) ==
  /\ Up(m) /\ nwrites < MaxWrites
  /\ nwrites' = nwrites + 1
  /\ LET h == internal_endpoint(m, store[m], peers[m],
                                IF v = None THEN "DELETE" ELSE "PUT", k, v)
     IN store' = deliver([store EXCEPT ![m] = h.data], h.calls)
  /\ req' = Disturb(k, 0, Idle)
  /\ lastw' = [lastw EXCEPT ![k] = NoWrite]
  /\ UNCHANGED <<status, replication_factor, peers, hash_ring, join, notified,
                 ncrash, njoin>>

Writes(S) ==
  \/ \E s \in S, n \in Nodes, k \in Keys, v \in Vals \cup {None, Malformed},
        c \in Levels \cup {None} : handle_put(s, n, k, v, c)
  \/ \E s \in S, n \in Nodes, k \in Keys, c \in Levels \cup {None} :
        handle_delete(s, n, k, c)
  \/ \E s \in S : handle_internal(s)
  \/ \E s \in S : resume(s)

Reads(S) ==
  \E s \in S, n \in Nodes, k \in Keys, c \in Levels \cup {None} : handle_get(s, n, k, c)

Direct ==
  \E m \in Nodes, k \in Keys, v \in Vals \cup {None} : direct_internal(m, k, v)

\* The internal endpoints called on any key a store can hold.
DirectAny ==
  \E m \in Nodes, k \in StoreKeys, v \in Vals \cup {None} : direct_internal(m, k, v)

Client(S) == Writes(S) \/ Reads(S) \/ Direct

Next == Membership \/ Writes(Slots)

Spec == Init /\ [][Next]_vars

\* ------------------------------------------------------ a running cluster
\* The peer table and ring of a node that knows the nodes of q, in this order.
RECURSIVE table(_, _)
table(q, i) ==
  IF i > Len(q) THEN <<>> ELSE <<[id |-> q[i], addr |-> address(q[i])]>> \o table(q, i + 1)
RECURSIVE ring_of(_, _)
ring_of(q, i) == IF i = 0 THEN EmptyRing ELSE add_node(ring_of(q, i - 1), q[i])

\* The views of the nodes once main.py's start_cluster (tests/test_distributed.py:
\* node2, then node3 join via node1), tests/test_tolerance.py (node3 joins via
\* node2, node1 never started) or a single start() have run.
Clusters ==
  { [n \in Nodes |-> CASE n = "node1" -> <<"node1", "node2", "node3">>
                       [] n = "node2" -> <<"node2", "node1", "node3">>
                       [] n = "node3" -> <<"node3", "node1", "node2">>],
    [n \in Nodes |-> CASE n = "node1" -> <<>>
                       [] n = "node2" -> <<"node2", "node3">>
                       [] n = "node3" -> <<"node3", "node2">>],
    [n \in Nodes |-> CASE n = "node1" -> <<"node1">>
                       [] n = "node2" -> <<>>
                       [] n = "node3" -> <<>>] }

InitCluster ==
  /\ \E view \in Clusters :
       /\ status = [n \in Nodes |-> IF view[n] = <<>> THEN "new" ELSE "up"]
       /\ peers = [n \in Nodes |-> table(view[n], 1)]
       /\ hash_ring = [n \in Nodes |-> ring_of(view[n], Len(view[n]))]
  /\ replication_factor \in RFs
  /\ store = [n \in Nodes |-> EmptyStore]
  /\ req = [s \in Slots |-> Idle]
  /\ join = [n \in Nodes |-> NoJoin]
  /\ lastw = [k \in StoreKeys |-> NoWrite]
  /\ notified = NoNote
  /\ nwrites = 0 /\ ncrash = 0 /\ njoin = 0

\* One client that sends its requests one after the other.
NextCluster == Client({1}) \/ \E n \in Nodes : crash(n)

SpecCluster == InitCluster /\ [][NextCluster]_vars

\* The same client, writing only, next to peer calls on any key.
NextPeer == Writes({1}) \/ DirectAny \/ \E n \in Nodes : crash(n)

SpecPeer == InitCluster /\ [][NextPeer]_vars

\* ------------------------------------------------ writes while nodes join
\* One client that writes key x at 'all' or 'quorum' while nodes start, join
\* and fail.
ChurnLevels == {"all", "quorum"}
ChurnWrites ==
  \/ \E n \in Nodes, c \in ChurnLevels : handle_put(1, n, "x", "a", c)
  \/ \E n \in Nodes, c \in ChurnLevels : handle_delete(1, n, "x", c)
  \/ handle_internal(1)
  \/ resume(1)

NextChurn == Membership \/ ChurnWrites

SpecChurn == Init /\ [][NextChurn]_vars

\* ---------------------------------------------------- two coordinators
\* Two clients: PUTs of key x at 'all' and GETs, handled by any nodes at the
\* same time.
RaceWrites ==
  \/ \E s \in Slots, n \in Nodes, v \in Vals : handle_put(s, n, "x", v, "all")
  \/ \E s \in Slots : handle_internal(s)
  \/ \E s \in Slots : resume(s)

NextRace == RaceWrites \/ Reads(Slots)

SpecRace == InitCluster /\ [][NextRace]_vars

\* ------------------------------------------------- reads and their answers
\* What the coordinator of a read may receive from session.get on a peer
\* address (lines 143-146, 199-202, 233-236): a transport error (status 0), or a
\* response of any status, 200 with a JSON body that has a 'value' or has none.
Replies ==
  {[status |-> st, value |-> None] : st \in {0, 404, 405}}
    \cup {[status |-> 200, value |-> v] : v \in Vals \cup {None}}

\* The RPC of the read in slot s is answered; a peer that is down answers
\* nothing.
peer_reply(s) ==
  /\ req[s].kind = "GET" /\ req[s].pc = "rpc"
  /\ \E resp \in (IF Up(req[s].to) THEN Replies ELSE {NoResp}) :
       req' = [req EXCEPT ![s].pc = "resp", ![s].resp = resp]
  /\ UNCHANGED <<status, replication_factor, peers, hash_ring, store, join, lastw, notified,
                 nwrites, ncrash, njoin>>

\* One client that reads, the stores being written through the internal
\* endpoints, with every answer a read can be given by a peer.
NextReplies ==
  \/ Reads({1})
  \/ Direct
  \/ peer_reply(1)
  \/ resume(1)
  \/ \E n \in Nodes : crash(n)

SpecReplies == InitCluster /\ [][NextReplies]_vars

\* ----------------------------------------------------------------- claims
Done(s) == req[s].kind # "none" /\ req[s].pc = "done"
\* The write handler got past its body check and ran the fan-out.
Replicated(r) == IsWrite(r) /\ r.reply.status # 400
\* Every node has started and knows every node (the joins have completed).
FullCluster == \A n \in Nodes : ring_nodes(n) = Nodes /\ peer_ids(peers[n]) = Nodes
\* Request s is an answered GET that arrived after the write lastw records for its
\* key replied, with no write to the key begun since.
ReadAfter(s, op, level) ==
  /\ Done(s) /\ req[s].kind = "GET" /\ req[s].clean
  /\ req[s].seen.op = op /\ req[s].seen.level = level /\ req[s].seen.status = 200
  /\ lastw[req[s].key] = req[s].seen

\* C1: on the 3-node cluster with RF=3, all nodes reachable, a GET at 'all' that
\* follows an acknowledged PUT(k, v) at 'all' with no write to k in between replies
\* 200 with v, whichever node it is sent to.
C1_WriteThenReadAll ==
  \A s \in Slots :
    (/\ ReadAfter(s, "PUT", "all") /\ req[s].level = "all"
     /\ replication_factor = DefaultRF /\ FullCluster /\ AllUp)
    => /\ req[s].reply.status = 200
       /\ req[s].reply.value = req[s].seen.value

C1_Witness ==
  \E s \in Slots :
    /\ ReadAfter(s, "PUT", "all") /\ req[s].level = "all"
    /\ replication_factor = DefaultRF /\ FullCluster /\ AllUp
    /\ req[s].node # req[s].seen.node
    /\ req[s].reply.value = "b"

\* The replica set a GET walked, and the first m nodes of a replica list.
Replicas(s) == Elems(req[s].replica_nodes)
FirstN(q, m) == [i \in 1..(IF m < Len(q) THEN m ELSE Len(q)) |-> q[i]]
Quorum(q) == (Len(q) \div 2) + 1

\* C2: after an acknowledged PUT(k, v) at 'one', some node of the replica
\* set holds v, and a GET at 'one' sent to any node returns v, provided the replica
\* holding v is reachable and the nodes agree on membership.
C2_Original ==
  /\ \A k \in Keys :
       (lastw[k].op = "PUT" /\ lastw[k].level = "one" /\ lastw[k].status = 200)
       => \E m \in Elems(get_replica_nodes(lastw[k].node, k)) :
            store_get(store[m], k) = lastw[k].value
  /\ \A s \in Slots :
       (/\ ReadAfter(s, "PUT", "one") /\ req[s].level = "one" /\ Agreed
        /\ \E m \in Replicas(s) : Up(m) /\ store_get(store[m], req[s].key) = req[s].seen.value)
       => /\ req[s].reply.status = 200
          /\ req[s].reply.value = req[s].seen.value

\* C3: on the 3-node cluster with RF=3, all reachable, a PUT at 'quorum' replies 200
\* with successful_replicas=2, attempted_replicas=2, total_possible_replicas=3, and
\* a following GET at 'quorum' sent to any node returns the value.
C3_Original ==
  \A s \in Slots :
    LET r == req[s]
    IN (replication_factor = DefaultRF /\ FullCluster /\ AllUp)
       => /\ (Done(s) /\ r.kind = "PUT" /\ Replicated(r) /\ r.level = "quorum")
             => /\ r.reply.status = 200
                /\ r.reply.successful_replicas = 2
                /\ r.reply.attempted_replicas = 2
                /\ r.reply.total_possible_replicas = 3
          /\ (ReadAfter(s, "PUT", "quorum") /\ r.level = "quorum")
             => r.reply.status = 200 /\ r.reply.value = r.seen.value

\* C4: on the 3-node cluster with RF=3, a GET with the default consistency sent to
\* a node other than node1 returns the value of the PUT with the default
\* consistency that node1 acknowledged before it.
C4_Original ==
  \A s \in Slots :
    (/\ ReadAfter(s, "PUT", write_level(None)) /\ req[s].seen.node = "node1"
     /\ req[s].level = read_level(None) /\ req[s].node # "node1"
     /\ replication_factor = DefaultRF /\ FullCluster /\ AllUp)
    => /\ req[s].reply.status = 200
       /\ req[s].reply.value = req[s].seen.value

\* C5: on the 3-node cluster with RF=3, all reachable, once a PUT(k, v) with the
\* default consistency is acknowledged, all 3 nodes hold v for k.
C5_Original ==
  \A k \in Keys :
    (/\ lastw[k].op = "PUT" /\ lastw[k].level = write_level(None) /\ lastw[k].status = 200
     /\ replication_factor = DefaultRF /\ FullCluster /\ AllUp)
    => \A n \in Nodes : store_get(store[n], k) = lastw[k].value

\* C6: with agreed membership and every replica reachable, a GET at 'all' that
\* follows an acknowledged DELETE(k) at 'all' with no write to k in between replies
\* 404: no replica of k holds a value.
C6_DeleteThenReadAll ==
  \A s \in Slots :
    (/\ ReadAfter(s, "DELETE", "all") /\ req[s].level = "all" /\ Agreed
     /\ \A m \in Replicas(s) : Up(m))
    => /\ req[s].reply.status = 404
       /\ \A m \in Replicas(s) : store_get(store[m], req[s].key) = None

C6_Witness ==
  \E s \in Slots :
    /\ ReadAfter(s, "DELETE", "all") /\ req[s].level = "all"
    /\ \A m \in Replicas(s) : Up(m)
    /\ Len(req[s].replica_nodes) = 3
    /\ req[s].node # req[s].seen.node
    /\ req[s].reply.status = 404

\* C7: a GET at 'all' during which two reachable replicas of the key hold different
\* values replies 409 listing both values, never 200.
C7_Original ==
  \A s \in Slots :
    LET r == req[s]
    IN (Done(s) /\ r.kind = "GET" /\ r.level = "all" /\ r.clean)
       => \A m1, m2 \in Replicas(s) :
            LET v1 == store_get(store[m1], r.key)
                v2 == store_get(store[m2], r.key)
            IN (Up(m1) /\ Up(m2) /\ v1 # None /\ v2 # None /\ v1 # v2)
               => r.reply.status = 409 /\ {v1, v2} \subseteq r.reply.values_found

C9_WriteSuccess ==
  \A s \in Slots :
    LET r == req[s]
        ok == IF r.level = "one" THEN r.successful_replicas >= 1
              ELSE r.successful_replicas = Len(r.target_nodes)
    IN (Done(s) /\ Replicated(r) /\ r.level \in {"all", "quorum", "one"})
       => /\ r.reply.status = IF ok THEN 200 ELSE 500
          /\ r.reply.successful_replicas = r.successful_replicas
          /\ r.reply.attempted_replicas = Len(r.target_nodes)
          /\ r.reply.total_possible_replicas = Len(get_replica_nodes(r.node, r.key))
          /\ r.reply.errors = r.errors
          /\ r.successful_replicas + Len(r.errors) = Len(r.target_nodes)

\* A quorum write with one of its two targets unreachable.
C9_Witness ==
  \E s \in Slots :
    /\ Done(s) /\ Replicated(req[s]) /\ req[s].level = "quorum"
    /\ req[s].reply.status = 500
    /\ req[s].reply.successful_replicas = 1
    /\ req[s].reply.attempted_replicas = 2
    /\ Len(req[s].reply.errors) = 1

\* C10 as stated: a write at a consistency other than 'one', 'quorum', 'all'
\* targets the nodes of a 'quorum' write and never replies 200.
C10_Original ==
  \A s \in Slots :
    LET r == req[s]
    IN (Done(s) /\ Replicated(r) /\ r.level \notin {"all", "quorum", "one"})
       => /\ r.target_nodes = FirstN(r.replica_nodes, Quorum(r.replica_nodes))
          /\ r.reply.status # 200

\* C10 as amended: such a write targets the nodes of a 'quorum' write and is judged
\* like one: 200 when every attempted target succeeded, 500 otherwise.
C10_UnknownLevel ==
  \A s \in Slots :
    LET r == req[s]
    IN (Done(s) /\ Replicated(r) /\ r.level \notin {"all", "quorum", "one"})
       => /\ r.target_nodes = FirstN(r.replica_nodes, Quorum(r.replica_nodes))
          /\ r.reply.status =
               IF r.successful_replicas = Len(r.target_nodes) THEN 200 ELSE 500

C10_Witness ==
  \E s \in Slots :
    /\ Done(s) /\ Replicated(req[s]) /\ req[s].level = "bogus"
    /\ Len(req[s].target_nodes) = 2
    /\ req[s].reply.status = 200
    /\ req[s].reply.successful_replicas = 2

\* C11: a quorum PUT with two targets of which exactly one applied the write
\* replies 500 with successful_replicas=1 and attempted_replicas=2, and the target
\* that applied it still holds the new value after the reply: nothing is rolled back.
C11_NoRollback ==
  \A s \in Slots :
    LET r == req[s]
    IN (/\ Done(s) /\ r.kind = "PUT" /\ Replicated(r) /\ r.level = "quorum"
        /\ Len(r.target_nodes) = 2
        /\ Cardinality(r.wrote) = 1)
       => /\ r.reply.status = 500
          /\ r.reply.successful_replicas = 1
          /\ r.reply.attempted_replicas = 2
          /\ r.clean => \A m \in r.wrote : store_get(store[m], r.key) = r.value

\* The coordinator is the target that succeeded, and it held another value before.
C11_Witness ==
  \E s \in Slots :
    /\ Done(s) /\ req[s].kind = "PUT" /\ req[s].level = "quorum" /\ req[s].clean
    /\ Len(req[s].target_nodes) = 2
    /\ req[s].wrote = {req[s].node}
    /\ req[s].reply.status = 500
    /\ store_get(store[req[s].node], req[s].key) = req[s].value
    /\ \E m \in Nodes : store_get(store[m], req[s].key) \notin {None, req[s].value}

\* C12: a client write turns to every node of its target list once, in order,
\* whatever the outcome of the earlier targets; when it replies,
\* successful_replicas + the number of errors = attempted_replicas = the size of
\* the target list.
C12_EveryTargetOnce ==
  \A s \in Slots :
    LET r == req[s]
    IN (r.kind # "none" /\ Replicated(r))
       => /\ \E m \in 0..Len(r.target_nodes) : r.tried = FirstN(r.target_nodes, m)
          /\ Done(s)
             => /\ r.tried = r.target_nodes
                /\ r.reply.successful_replicas + Len(r.reply.errors)
                     = r.reply.attempted_replicas
                /\ r.reply.attempted_replicas = Len(r.target_nodes)

\* The first of three targets failed and the other two were still written.
C12_Witness ==
  \E s \in Slots :
    /\ Done(s) /\ Replicated(req[s]) /\ Len(req[s].target_nodes) = 3
    /\ Len(req[s].reply.errors) = 1
    /\ req[s].reply.errors[1].node = req[s].target_nodes[1]
    /\ req[s].reply.successful_replicas = 2
    /\ req[s].wrote = {req[s].target_nodes[2], req[s].target_nodes[3]}

\* The peer RPCs on their way to a peer.
RpcInFlight == {s \in Slots : req[s].kind # "none" /\ req[s].pc = "rpc"}
NotifyInFlight == {n \in Nodes : join[n].pc = "notify"}

\* A step in which node m handles PUT /internal/store/{k} or DELETE
\* /internal/delete/{k}, sent by a coordinator or by anybody else.
InternalWriteOn(m, k) ==
  \/ \E s \in Slots : /\ handle_internal(s) /\ IsWrite(req[s])
                      /\ req[s].to = m /\ req[s].key = k /\ Up(m)
  \/ \E v \in Vals \cup {None} : direct_internal(m, k, v)

\* C13: a node that handles an internal PUT or DELETE for key k changes nothing but
\* its own store entry for k: its other keys, the stores of the other nodes, every
\* peer table and ring stay as they are, and no peer RPC is sent.
C13_InternalFrame ==
  [][\A m \in Nodes, k \in StoreKeys :
       InternalWriteOn(m, k)
       => /\ peers' = peers /\ hash_ring' = hash_ring
          /\ \A n \in Nodes \ {m} : store'[n] = store[n]
          /\ \A j \in StoreKeys \ {k} : store'[m][j] = store[m][j]
          /\ RpcInFlight' \subseteq RpcInFlight
          /\ NotifyInFlight' = NotifyInFlight]_vars

\* A peer of a coordinator has applied a PUT of x while it holds another key and
\* while another node of its peer table still holds no value for x.
C13_Witness ==
  \E s \in Slots :
    /\ req[s].kind = "PUT" /\ req[s].pc = "resp" /\ req[s].resp.status = 200
    /\ store_get(store[req[s].to], req[s].key) = req[s].value
    /\ store_get(store[req[s].to], "user1") \in Vals
    /\ \E n \in peer_ids(peers[req[s].to]) :
         Up(n) /\ store_get(store[n], req[s].key) = None

\* A step in which node m handles a notify_join that names peer p, sent by a join
\* handler or by anybody else.
NotifyJoinOn(m, p) ==
  \/ handle_notify_join(p) /\ join[p].to = m /\ Up(m)
  \/ \E a \in {address(p), Elsewhere} : direct_notify_join(m, p, a)

\* C14: a node that already has p in its peer table (as it has once it handled a
\* notify_join for p) handles a further notify_join for p, at the same or another
\* address, without changing any peer table or ring and without sending anything.
C14_NotifyIdempotent ==
  [][\A m, p \in Nodes :
       (NotifyJoinOn(m, p) /\ p \in peer_ids(peers[m]))
       => /\ peers' = peers /\ hash_ring' = hash_ring
          /\ RpcInFlight' \subseteq RpcInFlight
          /\ NotifyInFlight' \subseteq NotifyInFlight]_vars

\* A second notify_join named a known peer at another address than the recorded one.
C14_Witness ==
  /\ notified.count = 2 /\ notified.known
  /\ notified.id # notified.to
  /\ Up(notified.to)
  /\ notified.addr # peer_address(peers[notified.to], notified.id)
  /\ notified.id \in ring_nodes(notified.to)

\* C15: with all nodes reachable, once J has joined via E: E's peer table and ring
\* hold J; every other peer of the table E returned handled the notify_join and
\* holds J; J's peer table and ring hold every entry of that table, and J's own
\* entry is still its own address.  After node2 then node3 joined via node1, node3
\* and node1 list all three nodes and node2 lists node3.
C15_JoinPropagates ==
  /\ \A j \in Nodes :
       (join[j].result = "joined" /\ ncrash = 0)
       => LET E == join[j].via
              T == peer_ids(join[j].got)
          IN /\ j \in peer_ids(peers[E]) /\ j \in ring_nodes(E)
             /\ \A x \in T \ {j, E} :
                  /\ x \in join[j].told
                  /\ j \in peer_ids(peers[x]) /\ j \in ring_nodes(x)
             /\ T \subseteq peer_ids(peers[j]) /\ T \subseteq ring_nodes(j)
             /\ peer_address(peers[j], j) = address(j)
  /\ (/\ ncrash = 0
      /\ join["node2"].result = "joined" /\ join["node2"].via = "node1"
      /\ join["node3"].result = "joined" /\ join["node3"].via = "node1"
      /\ join["node2"].seq < join["node3"].seq)
     => /\ peer_ids(peers["node3"]) = Nodes
        /\ peer_ids(peers["node1"]) = Nodes
        /\ "node3" \in peer_ids(peers["node2"])

\* node2 then node3 joined via node1, and node2 was notified of node3.
C15_Witness ==
  /\ ncrash = 0
  /\ join["node2"].result = "joined" /\ join["node2"].via = "node1"
  /\ join["node3"].result = "joined" /\ join["node3"].via = "node1"
  /\ join["node2"].seq < join["node3"].seq
  /\ join["node3"].told = {"node2"}
  /\ peer_ids(join["node3"].got) = Nodes
  /\ FullCluster

JoinedThroughMember(n, seed) ==
  /\ join[n].result = "joined"
  /\ \/ join[n].via = seed
     \/ /\ join[n].viaok
        /\ join[join[n].via].result = "joined"
        /\ join[join[n].via].seq < join[n].seq

\* Every node but the seed has joined through a member, no join is under way and
\* no node has failed.
ClusterFormed ==
  /\ ncrash = 0
  /\ \A n \in Nodes : join[n].pc = "idle"
  /\ \E seed \in Nodes :
       /\ join[seed] = NoJoin
       /\ \A n \in Nodes \ {seed} : JoinedThroughMember(n, seed)

\* C17: once every node has joined through a member of the cluster and all joins
\* have completed with no node failing, every peer table and ring holds all the
\* nodes, and all nodes compute the same replica list for every key.
C17_RingAgreement ==
  ClusterFormed
  => /\ FullCluster
     /\ \A n, m \in Nodes, k \in StoreKeys :
          get_replica_nodes(n, k) = get_replica_nodes(m, k)

\* The cluster formed as a chain: one node joined through a node that had joined.
C17_Witness ==
  /\ ClusterFormed
  /\ \E n \in Nodes : join[n].result = "joined" /\ join[join[n].via].result = "joined"
  /\ FullCluster

\* C18: on every node, in every state, the nodes of the hash ring are keys of the
\* peer table; a node that has started is in its own ring and peer table.
C18_RingInPeers ==
  \A n \in Nodes :
    /\ ring_nodes(n) \subseteq peer_ids(peers[n])
    /\ status[n] # "new" => n \in ring_nodes(n) /\ n \in peer_ids(peers[n])

\* A node was joined through, was notified of the third node and knows all three.
C18_Witness ==
  \E n \in Nodes :
    /\ Up(n) /\ ring_nodes(n) = Nodes /\ peer_ids(peers[n]) = Nodes
    /\ \E j \in Nodes : join[j].result = "joined" /\ join[j].via = n
    /\ \E j \in Nodes : n \in join[j].told

\* C19: two rings that hold the same set of node ids, whatever the order of the
\* add_node and remove_node calls that built them, return the same list from
\* get_nodes for every key and every count.
C19_PlacementDeterminism ==
  \A a, b \in RingHolders :
    ring_nodes(a) = ring_nodes(b)
    => \A k \in RingKeys, replicas \in 0..MaxReplicas :
         get_nodes(hash_ring[a], k, replicas) = get_nodes(hash_ring[b], k, replicas)

\* Two rings of the same four nodes whose dicts were filled in different orders.
C19_Witness ==
  /\ ring_nodes("node1") = RingIds /\ ring_nodes("node2") = RingIds
  /\ hash_ring["node1"].nodes # hash_ring["node2"].nodes
  /\ hash_ring["node1"].nodes[1].id = "node4"
  /\ hash_ring["node2"].nodes[1].id = "node2"

\* C20: for every ring, key and count r >= 1, get_nodes returns min(r, number of
\* nodes of the ring) node ids, all distinct and all of the ring; the empty list on
\* an empty ring.
C20_GetNodesCount ==
  \A n \in RingHolders, k \in RingKeys, replicas \in 1..MaxReplicas :
    LET q == get_nodes(hash_ring[n], k, replicas)
        size == Len(hash_ring[n].nodes)
    IN /\ Len(q) = IF replicas < size THEN replicas ELSE size
       /\ \A i, j \in 1..Len(q) : i # j => q[i] # q[j]
       /\ Elems(q) \subseteq ring_nodes(n)
       /\ size = 0 => q = <<>>

\* A lookup that wraps around the end of a three-node ring, and one that asks for
\* more nodes than the ring has.
C20_Witness ==
  /\ ring_nodes("node1") = Nodes
  /\ get_nodes(hash_ring["node1"], "x", 2) = <<"node3", "node1">>
  /\ Len(get_nodes(hash_ring["node1"], "x", MaxReplicas)) = 3
  /\ hash_ring["node2"] = EmptyRing

\* C21: a client PUT whose body is not JSON or has no 'value' is answered 400 in
\* the step that receives it: the step changes no store, sends no peer RPC and
\* records no target of a fan-out.
C21_BadBodyRejected ==
  [][\A s \in Slots :
       FreeSlot(s) /\ req'[s].kind = "PUT" /\ req'[s].value \in {None, Malformed} =>
         \A n \in Nodes, k \in Keys, c \in Levels \cup {None} :
           handle_put(s, n, k, req'[s].value, c) =>
             /\ req'[s].pc = "done" /\ req'[s].reply.status = 400
             /\ store' = store
             /\ RpcInFlight' = RpcInFlight
             /\ req'[s].tried = <<>> /\ req'[s].wrote = {}]_vars

\* A PUT without 'value' was answered 400 by a replica that holds the key.
C21_Witness ==
  \E s \in Slots :
    /\ Done(s) /\ req[s].kind = "PUT" /\ req[s].value = None
    /\ req[s].reply.status = 400
    /\ store[req[s].node][req[s].key] # None
    /\ \A n \in Nodes : Up(n)

\* The cluster of tests/test_tolerance.py: node2 and node3 with
\* replication_factor=3, node3 joined via node2, node1 never started, both up.
TwoMembers ==
  /\ replication_factor = DefaultRF
  /\ status["node1"] = "new" /\ Up("node2") /\ Up("node3")
  /\ \A n \in {"node2", "node3"} :
       ring_nodes(n) = {"node2", "node3"} /\ peer_ids(peers[n]) = {"node2", "node3"}

\* C22: in the two-member cluster a PUT at the default consistency ('quorum')
\* sent to node2 replies 200 and has written node2 and node3, and a GET at the
\* default consistency ('one') sent to node3 after it, with no write to the key
\* in between, replies 200 with the written value.
C22_TwoMemberCluster ==
  TwoMembers =>
    /\ \A k \in Keys :
         (lastw[k].op = "PUT" /\ lastw[k].node = "node2" /\ lastw[k].level = "quorum")
         => /\ lastw[k].status = 200
            /\ store["node2"][k] = lastw[k].value
            /\ store["node3"][k] = lastw[k].value
    /\ \A s \in Slots :
         (/\ ReadAfter(s, "PUT", "quorum") /\ req[s].seen.node = "node2"
          /\ req[s].node = "node3" /\ req[s].level = "one")
         => /\ req[s].reply.status = 200
            /\ req[s].reply.value = req[s].seen.value

C22_Witness ==
  /\ TwoMembers
  /\ \E s \in Slots :
       /\ ReadAfter(s, "PUT", "quorum") /\ req[s].seen.node = "node2"
       /\ req[s].node = "node3" /\ req[s].level = "one"
       /\ req[s].reply.value = "b"
       /\ store["node2"][req[s].key] = "b"

\* The position at which the clockwise walk from h over the positions P starts,
\* and the order in which the walk from position first meets two positions.
Successor(P, h) ==
  LET ge == {p \in P : p >= h}
  IN IF ge # {} THEN CHOOSE p \in ge : \A q \in ge : p <= q
     ELSE CHOOSE p \in P : \A q \in P : p <= q
Clockwise(first, p, q) ==
  \/ p >= first /\ q < first
  \/ (p >= first <=> q >= first) /\ p < q

\* C23: on a non-empty ring get_nodes(k, r) starts at the node whose position is
\* the smallest one >= hash(k), or the smallest one overall when there is none,
\* goes on in increasing position order with wrap-around and skips no node; the
\* primary get_node(k) is that first node.
C23_ClockwiseWalk ==
  \A n \in RingHolders, k \in RingKeys, replicas \in 1..MaxReplicas :
    hash_ring[n].nodes # <<>> =>
      LET q == get_nodes(hash_ring[n], k, replicas)
          first == Successor({hash(id) : id \in ring_nodes(n)}, hash(k))
      IN /\ q # <<>> /\ hash(q[1]) = first
         /\ get_node(hash_ring[n], k) = q[1]
         /\ \A i, j \in 1..Len(q) : i < j => Clockwise(first, hash(q[i]), hash(q[j]))
         /\ \A id \in ring_nodes(n) \ Elems(q) :
              \A i \in 1..Len(q) : Clockwise(first, hash(q[i]), hash(id))

\* A walk that starts in the middle of a four-node ring and wraps around, and a
\* key beyond the last position of a three-node ring, whose primary is the node
\* at the smallest position.
C23_Witness ==
  /\ ring_nodes("node1") = RingIds
  /\ get_nodes(hash_ring["node1"], "user1", 3) = <<"node2", "node4", "node3">>
  /\ ring_nodes("node2") = Nodes
  /\ get_node(hash_ring["node2"], "x") = "node3"

\* C24: whatever add_node and remove_node calls built a ring, sorted_hashes is
\* the ascending list of the positions of its dict, no node id has two positions,
\* add_node of a node of the ring and remove_node of a node that is not of the
\* ring change nothing, and remove_node(x) after add_node(x) gives back a ring
\* that did not hold x.
C24_RingInSync ==
  \A n \in RingHolders :
    LET r == hash_ring[n]
        h == r.sorted_hashes
    IN /\ Len(h) = Len(r.nodes) /\ Elems(h) = positions(r.nodes)
       /\ \A i, j \in 1..Len(h) : i < j => h[i] < h[j]
       /\ \A i, j \in 1..Len(r.nodes) :
            i # j => r.nodes[i].id # r.nodes[j].id /\ r.nodes[i].pos # r.nodes[j].pos
       /\ \A x \in RingIds :
            IF x \in ring_nodes(n)
            THEN add_node(r, x) = r
            ELSE /\ remove_node(r, x) = r
                 /\ remove_node(add_node(r, x), x) = r

\* A ring of three nodes whose dict is not in position order, next to a ring
\* that holds one node.
C24_Witness ==
  /\ get_all_nodes(hash_ring["node1"]) = <<"node4", "node2", "node3">>
  /\ hash_ring["node1"].sorted_hashes = <<hash("node3"), hash("node2"), hash("node4")>>
  /\ get_all_nodes(hash_ring["node2"]) = <<"node1">>

\* The values a read was returned, in the order of its replicas, and the number
\* of times a value is among them.
Returned(s) ==
  LET got == SelectSeq(req[s].heard, LAMBDA e : e.value # None)
  IN [i \in 1..Len(got) |-> got[i].value]
Times(q, v) == Cardinality({i \in 1..Len(q) : q[i] = v})
\* Request s is an answered GET at this level.
Answered(s, level) == Done(s) /\ req[s].kind = "GET" /\ req[s].level = level

\* C25: a GET at 'quorum' consults its replica set in ring order, itself
\* included, and stops exactly when floor(n/2)+1 values were returned or the set
\* is exhausted; with at least one value it replies 200 with the most frequent
\* one, the one returned first among equally frequent ones, and it replies 404
\* exactly when no consulted replica returned a value.
C25_QuorumRead ==
  \A s \in Slots :
    Answered(s, "quorum") =>
      LET R == req[s].replica_nodes
          H == req[s].heard
          vals == Returned(s)
          need == (Len(R) \div 2) + 1
          v == req[s].reply.value
      IN /\ Len(H) <= Len(R) /\ \A i \in 1..Len(H) : H[i].node = R[i]
         /\ Len(H) < Len(R) => Len(vals) >= need
         /\ Len(vals) >= need => Len(vals) = need /\ H[Len(H)].value # None
         /\ (req[s].reply.status = 404) <=> (vals = <<>>)
         /\ vals # <<>> =>
              /\ req[s].reply.status = 200
              /\ \E i \in 1..Len(vals) :
                   /\ vals[i] = v /\ \A j \in 1..(i - 1) : vals[j] # v
                   /\ \A j \in 1..Len(vals) :
                        /\ Times(vals, vals[j]) <= Times(vals, v)
                        /\ Times(vals, vals[j]) = Times(vals, v) => i <= j

\* A quorum GET on the 3-node cluster that met a replica without a value, then
\* two replicas with different values, and stopped: the first value wins the tie.
C25_Witness ==
  \E s \in Slots :
    /\ Answered(s, "quorum") /\ FullCluster /\ replication_factor = DefaultRF
    /\ Len(req[s].heard) = 3 /\ req[s].heard[1].value = None
    /\ Returned(s) = <<"b", "a">>
    /\ req[s].reply.status = 200 /\ req[s].reply.value = "b"

\* C26: a GET at 'all' consults every replica of its set, whatever the replicas
\* before returned or failed to return; when at least one returned a value and
\* all returned values are equal it replies 200 with that value, and it replies
\* 404 exactly when no replica returned a value.
C26_ReadAllSurvivesFailures ==
  \A s \in Slots :
    Answered(s, "all") =>
      LET R == req[s].replica_nodes
          H == req[s].heard
          vals == Returned(s)
      IN /\ Len(H) = Len(R) /\ \A i \in 1..Len(H) : H[i].node = R[i]
         /\ (req[s].reply.status = 404) <=> (vals = <<>>)
         /\ (vals # <<>> /\ \A i \in 1..Len(vals) : vals[i] = vals[1])
            => req[s].reply.status = 200 /\ req[s].reply.value = vals[1]

\* A GET at 'all' on the 3-node cluster answered 200 although the first replica
\* of the set was down and the last one returned no value.
C26_Witness ==
  \E s \in Slots :
    /\ Answered(s, "all") /\ FullCluster /\ replication_factor = DefaultRF
    /\ Len(req[s].heard) = 3 /\ ~Up(req[s].heard[1].node)
    /\ req[s].heard[1].value = None /\ req[s].heard[3].value = None
    /\ req[s].heard[2].value = "a"
    /\ req[s].reply.status = 200 /\ req[s].reply.value = "a"

\* C27: no step removes a node id from the peer table or from the ring of a
\* node: joins, notifications, client writes, peer calls, their failures on an
\* unreachable peer and the failure of a node leave every id where it is.
C27_MembershipMonotone ==
  [][\A n \in Nodes :
       /\ peer_ids(peers[n]) \subseteq peer_ids(peers'[n])
       /\ ring_nodes(n) \subseteq {hash_ring'[n].nodes[i].id : i \in 1..Len(hash_ring'[n].nodes)}]_vars

\* A node that joined the cluster answered a write with the error of a peer
\* that is down: the peer is still in its table and ring.
C27_Witness ==
  \E s \in Slots :
    /\ Done(s) /\ IsWrite(req[s]) /\ req[s].reply.errors # <<>>
    /\ \E i \in 1..Len(req[s].reply.errors) :
         LET m == req[s].reply.errors[i].node
         IN /\ ~Up(m)
            /\ m \in peer_ids(peers[req[s].node])
            /\ m \in ring_nodes(req[s].node)
            /\ join[req[s].node].result = "joined"

\* C28 as the spec states it: every answered write at 'quorum' reports
\* attempted_replicas = floor(total_possible_replicas / 2) + 1 and every answered
\* write at 'all' reports attempted_replicas = total_possible_replicas, also when
\* the coordinator handled a join while its RPCs were in flight.
C28_Original ==
  \A s \in Slots :
    (Done(s) /\ Replicated(req[s])) =>
      LET y == req[s].reply
      IN /\ req[s].level = "quorum"
            => y.attempted_replicas = (y.total_possible_replicas \div 2) + 1
         /\ req[s].level = "all"
            => y.attempted_replicas = y.total_possible_replicas

\* Requests s and t are the only two writes so far: answered PUTs of different
\* values to one key at 'all', coordinated by different nodes, each begun while
\* the other was in flight, every replica of their sets being up.
Concurrent(s, t) ==
  /\ Done(s) /\ Done(t) /\ nwrites = 2
  /\ req[s].kind = "PUT" /\ req[t].kind = "PUT"
  /\ Replicated(req[s]) /\ Replicated(req[t])
  /\ req[s].level = "all" /\ req[t].level = "all"
  /\ req[s].key = req[t].key /\ req[s].value # req[t].value
  /\ req[s].node # req[t].node
  /\ ~req[s].clean /\ ~req[t].clean
  /\ \A m \in Replicas(s) \cup Replicas(t) : Up(m)
NoWriteInFlight == \A s \in Slots : ~(InFlight(s) /\ IsWrite(req[s]))

\* C29: two concurrent PUTs of different values to one key at 'all', from two
\* coordinators with every replica up, both reply 200 with every replica
\* written, each replica holding the value of one of them (not necessarily the
\* same one: the witness), and with no write in flight no step other than the
\* arrival of a new write changes a store.
C29_ConcurrentWrites ==
  /\ [](\A s, t \in Slots :
          Concurrent(s, t) =>
            /\ req[s].reply.status = 200 /\ req[t].reply.status = 200
            /\ req[s].wrote = Replicas(s) /\ req[t].wrote = Replicas(t)
            /\ \A m \in Replicas(s) : store[m][req[s].key] \in {req[s].value, req[t].value})
  /\ [][(NoWriteInFlight /\ nwrites' = nwrites) => store' = store]_vars

\* Both writes were answered 200 on the 3-node cluster, and two replicas of the
\* key hold different values.
C29_Witness ==
  /\ Concurrent(1, 2) /\ FullCluster /\ replication_factor = DefaultRF
  /\ req[1].reply.status = 200 /\ req[2].reply.status = 200
  /\ \E m1, m2 \in Replicas(1) : store[m1][req[1].key] # store[m2][req[1].key]

\* C30 as the spec states it: a join handled by a node E that stays up is
\* answered 200, also when E handles a notify_join for a peer it does not know
\* while it awaits a notify_join RPC of this join, and the joining node ends with
\* E in its peer table and ring.
C30_Original ==
  \A n \in Nodes :
    (join[n].via # None /\ Up(join[n].via)) =>
      /\ join[n].pc = "reply" => join[n].resp.status = 200
      /\ join[n].result # "failed"
      /\ join[n].result = "joined"
         => join[n].via \in peer_ids(peers[n]) /\ join[n].via \in ring_nodes(n)

\* C31: a client DELETE whose replicas are all up replies 200 with every target
\* counted successful, whether or not a target held the key and whatever the
\* consistency level; a DELETE that repeats the DELETE last acknowledged for its
\* key, with no other write in between or meanwhile, changes no store in any of
\* its steps.
C31_DeleteIdempotent ==
  /\ [](\A s \in Slots :
          (Done(s) /\ req[s].kind = "DELETE" /\ \A m \in Replicas(s) : Up(m))
          => /\ req[s].reply.status = 200
             /\ req[s].reply.successful_replicas = Len(req[s].target_nodes))
  /\ [][\A s \in Slots :
          (/\ req'[s] # req[s] /\ req'[s].kind = "DELETE"
           /\ req'[s].again /\ req'[s].clean)
          => store' = store]_vars

\* On the 3-node cluster a DELETE at 'all' was repeated through another node
\* and answered 200 again, no node holding the key.
C31_Witness ==
  \E s \in Slots :
    /\ Done(s) /\ req[s].kind = "DELETE" /\ req[s].again /\ req[s].clean
    /\ req[s].level = "all" /\ req[s].reply.status = 200
    /\ req[s].reply.successful_replicas = 3
    /\ lastw[req[s].key] = Ack(req[s])
    /\ FullCluster /\ AllUp /\ nwrites = 2
    /\ \A m \in Nodes : store[m][req[s].key] = None

\* C32: the ring of a started node holds a node, and every 200 reply to a PUT or
\* DELETE at 'one', 'quorum' or 'all' reports attempted_replicas >= 1 and
\* successful_replicas >= 1, the store of at least one node having applied the
\* operation.
C32_NoVacuousSuccess ==
  /\ \A n \in Nodes : status[n] # "new" => hash_ring[n].nodes # <<>>
  /\ \A s \in Slots :
       (/\ Done(s) /\ Replicated(req[s]) /\ req[s].reply.status = 200
        /\ req[s].level \in {"one", "quorum", "all"})
       => /\ req[s].reply.attempted_replicas >= 1
          /\ req[s].reply.successful_replicas >= 1
          /\ req[s].wrote # {}
          /\ req[s].wrote \subseteq Elems(req[s].target_nodes)

\* A write at 'one' answered 200 after its single target, a peer of the
\* coordinator, applied it, another node being down.
C32_Witness ==
  \E s \in Slots :
    /\ Done(s) /\ Replicated(req[s]) /\ req[s].reply.status = 200
    /\ req[s].level = "one" /\ req[s].reply.attempted_replicas = 1
    /\ req[s].reply.successful_replicas = 1
    /\ req[s].wrote # {} /\ req[s].node \notin req[s].wrote
    /\ \E n \in Nodes : status[n] = "down"

\* C33: no write ever records the error 'Node not in peer list': as long as a
\* write is being handled or remembered, every node of the replica set its
\* coordinator computed is in the coordinator's peer table, also when the
\* coordinator handles joins while the fan-out is in flight.
C33_ReplicasAreKnownPeers ==
  \A s \in Slots :
    (req[s].kind # "none" /\ IsWrite(req[s]) /\ Replicated(req[s])) =>
      /\ Replicas(s) \subseteq peer_ids(peers[req[s].node])
      /\ \A i \in 1..Len(req[s].errors) : req[s].errors[i].error # "Node not in peer list"
      /\ \A i \in 1..Len(req[s].reply.errors) :
           req[s].reply.errors[i].error # "Node not in peer list"

\* A write at 'all' over three replicas, two of them peers, was answered without
\* an error by a coordinator that handled a join while the fan-out was in flight.
C33_Witness ==
  \E s \in Slots :
    /\ Done(s) /\ Replicated(req[s]) /\ req[s].level = "all"
    /\ Len(req[s].replica_nodes) = 2 /\ req[s].wrote = Replicas(s)
    /\ req[s].reply.total_possible_replicas = 3
    /\ req[s].reply.errors = <<>> /\ req[s].reply.status = 200

\* ------------------------------------------------ progress
\* Clients of node1 and node2 with requests in both slots at once, on key x at
\* 'all', while node1 and node2 join, each through the other.
LiveNodes == {"node1", "node2"}

LiveClient ==
  \/ \E s \in Slots, n \in LiveNodes : handle_put(s, n, "x", "a", "all")
  \/ \E s \in Slots : handle_get(s, "node1", "x", "all")
  \/ \E s \in Slots : handle_delete(s, "node2", "x", "all")
  \/ \E s \in Slots : handle_internal(s)
  \/ \E s \in Slots : resume(s)

LiveJoins ==
  \/ \E n \in LiveNodes, e \in LiveNodes : join_cluster(n, e)
  \/ \E n \in Nodes : handle_notify_join(n)
  \/ \E n \in Nodes : handle_join_resume(n)
  \/ \E n \in Nodes : join_reply(n)

NextLive == LiveClient \/ LiveJoins

\* The coordinator of request s has the response of its RPC and is ready to
\* run: resume(s) can take a step, and every step of it leaves pc = "resp".
Resumable(s) == req[s].kind # "none" /\ req[s].pc = "resp"

\* Every RPC ends with a response or an error (the peer's handler runs or the
\* call raises), and the event loop of a node runs every coroutine that is
\* ready.  The condition on resume(s) is WF_vars(resume(s)) with
\* ENABLED <<resume(s)>>_vars written out as Resumable(s).
FairLive ==
  /\ \A s \in Slots : /\ WF_vars(handle_internal(s))
                       /\ ([]<>(~Resumable(s)) \/ []<><<resume(s)>>_vars)
  /\ \A n \in Nodes : /\ WF_vars(handle_notify_join(n))
                       /\ WF_vars(handle_join_resume(n))
                       /\ WF_vars(join_reply(n))

SpecLive == InitCluster /\ [][NextLive]_vars /\ FairLive

\* C34: when every peer RPC ends with a response or an error and every ready
\* handler is run, every client GET, PUT and DELETE that was accepted gets its
\* reply and every join_cluster call returns, also when two nodes replicate to
\* each other at the same time and when two nodes join through each other at
\* the same time.
C34_NoDistributedDeadlock ==
  /\ \A s \in Slots : InFlight(s) ~> Done(s)
  /\ \A n \in Nodes : (join[n].pc # "idle") ~> (join[n].pc = "idle")

\* Two coordinators await the internal endpoint of each other while each of the
\* two joins through the other.
C34_Witness ==
  /\ req[1].kind = "PUT" /\ req[1].node = "node1"
  /\ req[1].pc = "rpc" /\ req[1].to = "node2"
  /\ req[2].kind \in {"PUT", "DELETE"} /\ req[2].node = "node2"
  /\ req[2].pc = "rpc" /\ req[2].to = "node1"
  /\ join["node1"].pc # "idle" /\ join["node1"].via = "node2"
  /\ join["node2"].pc # "idle" /\ join["node2"].via = "node1"

====
